---------------------------- MODULE Spec2Model ----------------------------
(***************************************************************************)
(* A model of dissect.squashfs (src/dissect/squashfs/squashfs.py): the     *)
(* SquashFS reader, its inodes and its file stream, over byte-level        *)
(* images.  All multi-byte integers on disk are little-endian.             *)
(***************************************************************************)
EXTENDS Integers, Sequences, FiniteSets, TLC

VARIABLES
    fh,          \* the byte source: the image, a sequence of bytes 0..255
    sb,          \* the parsed superblock (a record of its fields)
    status,      \* SquashFS.__init__: "new", "ready" or the exception raised
    tables,      \* id_table, lookup_table, fragment_table of a ready reader
    blocks_seen, \* the block counts INode.block_list computed last
    block_cache, \* the lru_cache of SquashFS._read_block
    id_cache,    \* the lru_cache of SquashFS._lookup_id
    inode_cache, \* the lru_cache of SquashFS._lookup_inode
    frag_cache,  \* the lru_cache of SquashFS._lookup_fragment
    last,        \* the last call on the reader: its name, arguments, result
    inum,        \* SquashFS.iter_inodes: the inode number yielded next
    calls,       \* the number of calls the client has made
    mr,          \* a metadata read in two parts and in one
    gen,         \* a generator of INode.iterdir and what it has yielded
    ops,         \* inode objects, their cached attributes, the last call
    walk,        \* SquashFS.get: the call stack and the client's calls
    stream       \* a FileStream and the reads made on it

readerVars == <<fh, sb, status, tables>>
cacheVars == <<block_cache, id_cache, inode_cache, frag_cache, last, inum, calls>>
vars == <<readerVars, blocks_seen, cacheVars, mr, gen, ops, walk, stream>>

\* what the actions of one part of the model leave alone
exceptSuper == <<cacheVars, mr, gen, ops, walk, stream>>
exceptCache == <<blocks_seen, mr, gen, ops, walk, stream>>
exceptMeta == <<blocks_seen, cacheVars, gen, ops, walk, stream>>
exceptDir == <<blocks_seen, cacheVars, mr, ops, walk, stream>>
exceptOps == <<blocks_seen, cacheVars, mr, gen, walk, stream>>
exceptWalk == <<blocks_seen, cacheVars, mr, gen, ops, stream>>
exceptStream == <<blocks_seen, cacheVars, mr, gen, ops, walk>>

(***************************************************************************)
(* Bounds of the model.                                                     *)
(***************************************************************************)
\* log2 of the data block size of the images the file stream is checked on
BlockLog == 2
\* payload bytes per metadata block of a chunked directory table
MetaChunk == 10

(***************************************************************************)
(* On-disk constants (c_squashfs).                                          *)
(***************************************************************************)
SQUASHFS_MAGIC == 1936814952
SQUASHFS_METADATA_SIZE == 8192
SQUASHFS_COMPRESSED_BIT == 32768
SQUASHFS_COMPRESSED_BIT_BLOCK == 16777216
SQUASHFS_COMP_OPT == 10
\* 0xFFFFFFFF and 0xFFFFFFFFFFFFFFFF do not fit TLC's 32-bit integers: the
\* two sentinels are kept as the little-endian bytes of the field, and a
\* field is compared with them before it is converted to a number.
SQUASHFS_INVALID_FRAG == <<255, 255, 255, 255>>
SQUASHFS_INVALID_BLK == <<255, 255, 255, 255, 255, 255, 255, 255>>
None == "None"
\* None where the code's value is otherwise a number: the length of
\* _read_block for a metadata block, the block size of a fragment run
NoneInt == -1

Min(a, b) == IF a < b THEN a ELSE b
Max(a, b) == IF a > b THEN a ELSE b

RECURSIVE Pow2(_)
Pow2(n) == IF n = 0 THEN 1 ELSE 2 * Pow2(n - 1)

\* b"".join(ss) and sum(s), by halves (the recursion stays shallow)
RECURSIVE Flatten(_)
Flatten(ss) ==
    IF ss = <<>> THEN <<>>
    ELSE IF Len(ss) = 1 THEN ss[1]
    ELSE Flatten(SubSeq(ss, 1, Len(ss) \div 2))
         \o Flatten(SubSeq(ss, (Len(ss) \div 2) + 1, Len(ss)))

RECURSIVE SumSeq(_)
SumSeq(s) ==
    IF s = <<>> THEN 0
    ELSE IF Len(s) = 1 THEN s[1]
    ELSE SumSeq(SubSeq(s, 1, Len(s) \div 2))
         + SumSeq(SubSeq(s, (Len(s) \div 2) + 1, Len(s)))

\* Python's s[a:b] for 0 <= a, on a sequence
Slice(s, a, b) == SubSeq(s, a + 1, Min(b, Len(s)))

(***************************************************************************)
(* struct / cstruct: little-endian integers.                                *)
(***************************************************************************)
\* bytes -> unsigned integer (Horner from the most significant byte)
RECURSIVE U(_)
U(bs) == IF bs = <<>> THEN 0 ELSE bs[1] + 256 * U(Tail(bs))

\* bytes -> int16
S16(bs) == IF U(bs) >= 32768 THEN U(bs) - 65536 ELSE U(bs)

\* unsigned integer -> n bytes
RECURSIVE LE(_, _)
LE(n, v) == IF n = 0 THEN <<>> ELSE <<v % 256>> \o LE(n - 1, v \div 256)

\* A struct layout is a sequence of <<field, bytes>>.
RECURSIVE StructLen(_)
StructLen(layout) ==
    IF layout = <<>> THEN 0 ELSE Head(layout)[2] + StructLen(Tail(layout))

FieldOffset(layout, i) == StructLen(SubSeq(layout, 1, i - 1))

\* A parsed struct maps each field to its bytes; U and S16 read a field.
ParseStruct(layout, data) ==
    [f \in {layout[i][1] : i \in 1..Len(layout)} |->
        LET i == CHOOSE j \in 1..Len(layout) : layout[j][1] = f
        IN  Slice(data, FieldOffset(layout, i), FieldOffset(layout, i) + layout[i][2])]

squashfs_super_block ==
    << <<"s_magic", 4>>, <<"inodes", 4>>, <<"mkfs_time", 4>>,
       <<"block_size", 4>>, <<"fragments", 4>>, <<"compression", 2>>,
       <<"block_log", 2>>, <<"flags", 2>>, <<"no_ids", 2>>, <<"s_major", 2>>,
       <<"s_minor", 2>>, <<"root_inode", 8>>, <<"bytes_used", 8>>,
       <<"id_table_start", 8>>, <<"xattr_id_table_start", 8>>,
       <<"inode_table_start", 8>>, <<"directory_table_start", 8>>,
       <<"fragment_table_start", 8>>, <<"lookup_table_start", 8>> >>
squashfs_base_inode_header ==
    << <<"inode_type", 2>>, <<"mode", 2>>, <<"uid", 2>>, <<"guid", 2>>,
       <<"mtime", 4>>, <<"inode_number", 4>> >>
squashfs_dir_inode_header ==
    squashfs_base_inode_header \o
    << <<"start_block", 4>>, <<"nlink", 4>>, <<"file_size", 2>>,
       <<"offset", 2>>, <<"parent_inode", 4>> >>
squashfs_reg_inode_header ==
    squashfs_base_inode_header \o
    << <<"start_block", 4>>, <<"fragment", 4>>, <<"offset", 4>>,
       <<"file_size", 4>> >>
squashfs_symlink_inode_header ==
    squashfs_base_inode_header \o << <<"nlink", 4>>, <<"symlink_size", 4>> >>
squashfs_dev_inode_header ==
    squashfs_base_inode_header \o << <<"nlink", 4>>, <<"rdev", 4>> >>
squashfs_dir_header ==
    << <<"count", 4>>, <<"start_block", 4>>, <<"inode_number", 4>> >>
squashfs_dir_entry ==
    << <<"offset", 2>>, <<"inode_number", 2>>, <<"type", 2>>, <<"size", 2>> >>
squashfs_fragment_entry ==
    << <<"start_block", 8>>, <<"size", 4>>, <<"unused", 4>> >>

SQUASHFS_DIR_TYPE == 1
SQUASHFS_REG_TYPE == 2
SQUASHFS_SYMLINK_TYPE == 3
SQUASHFS_CHRDEV_TYPE == 5

INODE_STRUCT_MAP ==
    [t \in {SQUASHFS_DIR_TYPE, SQUASHFS_REG_TYPE, SQUASHFS_SYMLINK_TYPE,
            SQUASHFS_CHRDEV_TYPE} |->
        CASE t = SQUASHFS_DIR_TYPE -> squashfs_dir_inode_header
          [] t = SQUASHFS_REG_TYPE -> squashfs_reg_inode_header
          [] t = SQUASHFS_SYMLINK_TYPE -> squashfs_symlink_inode_header
          [] t = SQUASHFS_CHRDEV_TYPE -> squashfs_dev_inode_header]

TYPE_MAP ==
    [t \in DOMAIN INODE_STRUCT_MAP |->
        CASE t = SQUASHFS_DIR_TYPE -> "S_IFDIR"
          [] t = SQUASHFS_REG_TYPE -> "S_IFREG"
          [] t = SQUASHFS_SYMLINK_TYPE -> "S_IFLNK"
          [] t = SQUASHFS_CHRDEV_TYPE -> "S_IFCHR"]

(***************************************************************************)
(* The byte source.                                                         *)
(***************************************************************************)
\* fh.seek(pos); fh.read(n): short at the end of the image
FhRead(pos, n) == Slice(fh, pos, pos + n)

(***************************************************************************)
(* The decompressor (dissect.squashfs.compression): a run-length codec, a  *)
(* sequence of <<count, byte>> pairs.  Garbled input is reported as a       *)
(* failure.                                                                 *)
(***************************************************************************)
Repeat(b, n) == [i \in 1..n |-> b]

\* the expansion of a sequence of pairs, by halves
RECURSIVE Expand(_)
Expand(src) ==
    IF src = <<>> THEN <<>>
    ELSE IF Len(src) = 2 THEN Repeat(src[2], src[1])
    ELSE LET half == 2 * (Len(src) \div 4)
         IN  Expand(SubSeq(src, 1, half)) \o Expand(SubSeq(src, half + 1, Len(src)))

decompress(src, max_out) ==
    IF Len(src) % 2 # 0 \/ src = <<>>
    THEN [ok |-> FALSE, err |-> "DecompressError"]
    ELSE [ok |-> TRUE, data |-> Expand(src)]

\* compression.initialize(id, options): the ids of the registry
CompressionIds == 1..6

(***************************************************************************)
(* Images.  mksquashfs(p) lays out a small image: a data area (the blocks   *)
(* of /f and one fragment block), an inode table of two metadata blocks, a  *)
(* directory table, and the fragment, lookup and id tables.                 *)
(*                                                                          *)
(*   /        (inode 9)   a -> p.ta (5)   b -> p.tb (6)   c chrdev (7)      *)
(*                        d/ (4)          e/ empty (8)    f file (1)        *)
(*   /d                   f file (2)      s -> p.ts (3)                     *)
(***************************************************************************)
\* a run-length encoding of data: a run of equal bytes becomes one pair
RECURSIVE compress(_)
compress(data) ==
    IF data = <<>> THEN <<>>
    ELSE IF Len(data) <= 255 /\ \A i \in 1..Len(data) : data[i] = data[1]
    THEN <<Len(data), data[1]>>
    ELSE compress(SubSeq(data, 1, Len(data) \div 2))
         \o compress(SubSeq(data, (Len(data) \div 2) + 1, Len(data)))

MetaBlock(payload, comp) ==
    IF comp THEN LE(2, Len(compress(payload))) \o compress(payload)
    ELSE LE(2, Len(payload) + SQUASHFS_COMPRESSED_BIT) \o payload

RECURSIVE Chunks(_, _)
Chunks(bytes, k) ==
    IF Len(bytes) <= k THEN <<bytes>>
    ELSE <<SubSeq(bytes, 1, k)>> \o Chunks(SubSeq(bytes, k + 1, Len(bytes)), k)

\* the offset of block i (from 1) of a sequence of framed blocks
BlockStart(framed, i) == SumSeq([j \in 1..(i - 1) |-> Len(framed[j])])

block_size == Pow2(BlockLog)

FileByte(q) == 1 + ((q \div 2) % 5)
FileBytes(from, n) == [i \in 1..n |-> FileByte(from + i - 1)]

\* names and path characters, as bytes
CH_a == <<97>>
CH_b == <<98>>
CH_c == <<99>>
CH_d == <<100>>
CH_e == <<101>>
CH_f == <<102>>
CH_s == <<115>>
CH_x == <<120>>
CH_slash == <<47>>
CH_dot == <<46>>

BaseInode(type, ino) ==
    LE(2, type) \o LE(2, 420) \o LE(2, 0) \o LE(2, 1) \o LE(4, 1670266385)
    \o LE(4, ino)
RegInode(ino, start, frag, off, size, entries) ==
    BaseInode(SQUASHFS_REG_TYPE, ino) \o LE(4, start) \o frag \o LE(4, off)
    \o LE(4, size) \o Flatten([i \in 1..Len(entries) |-> LE(4, entries[i])])
SymlinkInode(ino, target) ==
    BaseInode(SQUASHFS_SYMLINK_TYPE, ino) \o LE(4, 1) \o LE(4, Len(target))
    \o target
DirInode(ino, start, size, off, parent) ==
    BaseInode(SQUASHFS_DIR_TYPE, ino) \o LE(4, start) \o LE(4, 2)
    \o LE(2, size) \o LE(2, off) \o LE(4, parent)
DevInode(ino) == BaseInode(SQUASHFS_CHRDEV_TYPE, ino) \o LE(4, 1) \o LE(4, 259)
DirHeader(n, start, ino) == LE(4, n - 1) \o LE(4, start) \o LE(4, ino)
DirEntry(off, delta, type, name) ==
    LE(2, off) \o LE(2, (delta + 65536) % 65536) \o LE(2, type)
    \o LE(2, Len(name) - 1) \o name

\* the block-list entry and the stored bytes of a data block of kind
\* "S" (sparse), "C" (compressed) or "R" (raw) holding `content`
StoredBlock(kind, content) ==
    CASE kind = "S" -> <<>>
      [] kind = "C" -> compress(content)
      [] kind = "R" -> content
BlockEntry(kind, content) ==
    CASE kind = "S" -> 0
      [] kind = "C" -> Len(compress(content))
      [] kind = "R" -> Len(content) + SQUASHFS_COMPRESSED_BIT_BLOCK
BlockContent(kind, from, n) ==
    IF kind = "S" THEN Repeat(0, n) ELSE FileBytes(from, n)

mksquashfs(p) ==
    LET bs == block_size
        \* ---- /f: p.full full blocks, then p.tail bytes held as p.last:
        \*      "F" in the fragment, or a final short block "S", "C", "R"
        nfull == Len(p.full)
        hasTailBlock == p.tail > 0 /\ p.last # "F"
        inFrag == p.tail > 0 /\ p.last = "F"
        kinds == IF hasTailBlock THEN Append(p.full, p.last) ELSE p.full
        blen(i) == IF i <= nfull THEN bs ELSE p.tail
        content(i) == BlockContent(kinds[i], (i - 1) * bs, blen(i))
        stored == [i \in 1..Len(kinds) |-> StoredBlock(kinds[i], content(i))]
        entries == [i \in 1..Len(kinds) |-> BlockEntry(kinds[i], content(i))]
        f1size == nfull * bs + p.tail
        f1bytes == Flatten([i \in 1..Len(kinds) |-> content(i)])
                   \o (IF inFrag THEN FileBytes(nfull * bs, p.tail) ELSE <<>>)
        \* ---- /d/f: two bytes at the head of the fragment block
        f2bytes == <<9, 8>>
        fragContent == f2bytes \o (IF inFrag THEN FileBytes(nfull * bs, p.tail)
                                   ELSE <<>>)
        fragStored == IF p.fragComp THEN compress(fragContent) ELSE fragContent
        fragSize == IF p.fragComp THEN Len(fragStored)
                    ELSE Len(fragStored) + SQUASHFS_COMPRESSED_BIT_BLOCK
        \* ---- the compression options block, when the flag says so
        options == IF p.compOpt THEN MetaBlock(LE(4, 9) \o LE(4, 15), FALSE)
                   ELSE <<>>
        dataStart == StructLen(squashfs_super_block) + Len(options)
        data == Flatten(stored)
        fragStart == dataStart + Len(data)
        \* ---- the inode table: block A (inodes 1-3), block B (inodes 4-9)
        i1 == RegInode(1, dataStart,
                       IF inFrag THEN LE(4, 0) ELSE SQUASHFS_INVALID_FRAG,
                       IF inFrag THEN Len(f2bytes) ELSE 0, f1size, entries)
        i2 == RegInode(2, 0, LE(4, 0), 0, Len(f2bytes), <<>>)
        i3 == SymlinkInode(3, p.ts)
        off1 == 0
        off2 == Len(i1)
        off3 == off2 + Len(i2)
        i5 == SymlinkInode(5, p.ta)
        i6 == SymlinkInode(6, p.tb)
        i7 == DevInode(7)
        lenDir == StructLen(squashfs_dir_inode_header)
        off4 == 0
        off5 == lenDir
        off6 == off5 + Len(i5)
        off7 == off6 + Len(i6)
        off8 == off7 + Len(i7)
        off9 == off8 + lenDir
        \* block A is never empty; its framed length is the address of block B
        blockA == MetaBlock(i1 \o i2 \o i3, p.metaComp)
        relA == 0
        relB == Len(blockA)
        \* ---- the directory table: /d, then /, cut into metadata blocks
        dRegion == DirHeader(2, relA, 2)
                   \o DirEntry(off2, 0, SQUASHFS_REG_TYPE, (CH_f))
                   \o DirEntry(off3, 1, SQUASHFS_SYMLINK_TYPE, (CH_s))
        rootRegion ==
            DirHeader(5, relB, 5)
            \o DirEntry(off5, 0, SQUASHFS_SYMLINK_TYPE, (CH_a))
            \o DirEntry(off6, 1, SQUASHFS_SYMLINK_TYPE, (CH_b))
            \o DirEntry(off7, 2, SQUASHFS_CHRDEV_TYPE, (CH_c))
            \o DirEntry(off4, -1, SQUASHFS_DIR_TYPE, (CH_d))
            \o DirEntry(off8, 3, SQUASHFS_DIR_TYPE, (CH_e))
            \o DirHeader(1, relA, 1)
            \o DirEntry(off1, 0, SQUASHFS_REG_TYPE, (CH_f))
        dirPieces == Chunks(dRegion \o rootRegion, p.dirChunk)
        dirFramed == [i \in 1..Len(dirPieces) |->
                         MetaBlock(dirPieces[i], p.metaComp)]
        dirBlockOf(pos) == BlockStart(dirFramed, (pos \div p.dirChunk) + 1)
        dirOffOf(pos) == pos % p.dirChunk
        rootPos == Len(dRegion)
        i4 == DirInode(4, dirBlockOf(0), Len(dRegion) + 3, dirOffOf(0), 9)
        i8 == DirInode(8, 0, 3, 0, 9)
        i9 == DirInode(9, dirBlockOf(rootPos), Len(rootRegion) + 3,
                       dirOffOf(rootPos), 10)
        blockB == MetaBlock(i4 \o i5 \o i6 \o i7 \o i8 \o i9, p.metaComp)
        inodeStart == fragStart + Len(fragStored)
        dirStart == inodeStart + Len(blockA) + Len(blockB)
        dirTable == Flatten(dirFramed)
        \* ---- the fragment, lookup and id tables
        fragEntries == MetaBlock(LE(8, fragStart) \o LE(4, fragSize) \o LE(4, 0),
                                 p.metaComp)
        fragEntriesAt == dirStart + Len(dirTable)
        fragTableAt == fragEntriesAt + Len(fragEntries)
        packed(blk, off) == LE(8, blk * 65536 + off)
        lookupEntries ==
            MetaBlock(packed(relA, off1) \o packed(relA, off2)
                      \o packed(relA, off3) \o packed(relB, off4)
                      \o packed(relB, off5) \o packed(relB, off6)
                      \o packed(relB, off7) \o packed(relB, off8)
                      \o packed(relB, off9), p.metaComp)
        lookupEntriesAt == fragTableAt + 8
        lookupTableAt == lookupEntriesAt + Len(lookupEntries)
        idEntries == MetaBlock(LE(4, 0) \o LE(4, 1000), p.metaComp)
        idEntriesAt == lookupTableAt + 8
        idTableAt == idEntriesAt + Len(idEntries)
        bytesUsed == idTableAt + 8
        super ==
            LE(4, SQUASHFS_MAGIC) \o LE(4, 9) \o LE(4, 1670266385)
            \o LE(4, bs) \o LE(4, 1) \o LE(2, 1) \o LE(2, BlockLog)
            \o LE(2, IF p.compOpt THEN Pow2(SQUASHFS_COMP_OPT) ELSE 0)
            \o LE(2, 2) \o LE(2, 4) \o LE(2, 0)
            \o packed(relB, off9) \o LE(8, bytesUsed) \o LE(8, idTableAt)
            \o SQUASHFS_INVALID_BLK \o LE(8, inodeStart) \o LE(8, dirStart)
            \o LE(8, fragTableAt) \o LE(8, lookupTableAt)
    IN  [image |-> super \o options \o data \o fragStored \o blockA \o blockB \o dirTable
                   \o fragEntries \o LE(8, fragEntriesAt)
                   \o lookupEntries \o LE(8, lookupEntriesAt)
                   \o idEntries \o LE(8, idEntriesAt),
         f1bytes |-> f1bytes,
         f2bytes |-> f2bytes]

\* the parameters of the reference image
DefaultImage ==
    [full |-> <<"C", "R">>, tail |-> 1, last |-> "F", fragComp |-> FALSE,
     metaComp |-> FALSE, compOpt |-> FALSE,
     dirChunk |-> SQUASHFS_METADATA_SIZE,
     ta |-> CH_d, tb |-> CH_a, ts |-> CH_f]

(***************************************************************************)
(* functools.lru_cache: a list of <<key, value>> entries, the most recently *)
(* used last.  A call that raises stores nothing.                           *)
(***************************************************************************)
\* the maxsize of the reader's caches (1024 in the source), scaled
LruSize == 1

LruHit(cache, key) == \E i \in 1..Len(cache) : cache[i].key = key
LruIndex(cache, key) == CHOOSE i \in 1..Len(cache) : cache[i].key = key
LruValue(cache, key) == cache[LruIndex(cache, key)].val
LruDrop(cache, i) == SubSeq(cache, 1, i - 1) \o SubSeq(cache, i + 1, Len(cache))
\* a hit moves the entry to the most recently used end
LruTouch(cache, key) ==
    LruDrop(cache, LruIndex(cache, key)) \o <<cache[LruIndex(cache, key)]>>
\* a miss stores the value, evicting the least recently used entry when full
LruStore(cache, key, val) ==
    IF LruSize = 0 THEN cache
    ELSE (IF Len(cache) >= LruSize THEN Tail(cache) ELSE cache)
         \o <<[key |-> key, val |-> val]>>
\* the wrapper: r is the wrapped function's result for key
lru_cache(cache, key, r) ==
    IF LruHit(cache, key)
    THEN [cache |-> LruTouch(cache, key), res |-> LruValue(cache, key)]
    ELSE IF r.ok THEN [cache |-> LruStore(cache, key, r), res |-> r]
    ELSE [cache |-> cache, res |-> r]

(***************************************************************************)
(* Method calls.  Python binds a method by name when the call runs, and the *)
(* methods of SquashFS, INode and FileStream call each other in both        *)
(* directions (SquashFS.get -> INode.link_inode -> SquashFS.get,            *)
(* INode.header -> SquashFS._read_metadata, SquashFS._lookup_inode ->       *)
(* SquashFS.get, FileStream._read -> SquashFS._read_block).  A call of one  *)
(* method from another is call(name, args): the recursive definition below  *)
(* the methods, which selects the method by its name.                       *)
(***************************************************************************)
RECURSIVE call(_, _)

(***************************************************************************)
(* SquashFS: block I/O and the metadata stream.                             *)
(***************************************************************************)
\* compression.initialize(id, options): None for an id outside the registry
\* stands for the initializer raising
initialize(id) == IF id \in CompressionIds THEN "codec" ELSE None

\* self._compression of a constructed reader
Compression == initialize(U(sb.compression))

\* the body of SquashFS._read_block; length = None reads a metadata block.
\* comp is self._compression ("unset" before __init__ assigns it), bsize is
\* self.block_size.  bound is the output bound handed to the decompressor,
\* 0 when the block is stored raw and no decompressor runs.
read_block_with(comp, bsize, block, length) ==
    LET isData == length # NoneInt
        prefix == FhRead(block, 2)
        raw == IF isData THEN length ELSE U(prefix)
        bit == IF isData THEN SQUASHFS_COMPRESSED_BIT_BLOCK
               ELSE SQUASHFS_COMPRESSED_BIT
        compressed == (raw \div bit) % 2 = 0
        len == IF compressed THEN raw ELSE raw - bit
        pos == IF isData THEN block ELSE block + 2
        data == FhRead(pos, len)
    IN  IF ~isData /\ Len(prefix) < 2
        THEN [ok |-> FALSE, err |-> "EOFError"]
        ELSE IF ~compressed
        THEN [ok |-> TRUE, next |-> pos + len, data |-> data, bound |-> 0]
        ELSE IF comp = "unset"
        THEN [ok |-> FALSE, err |-> "AttributeError"]
        ELSE IF comp = None
        THEN [ok |-> FALSE, err |-> "RuntimeError"]
        ELSE LET d == decompress(data, bsize)
             IN  IF d.ok
                 THEN [ok |-> TRUE, next |-> pos + len, data |-> d.data,
                       bound |-> bsize]
                 ELSE d

read_block_body(block, length) ==
    read_block_with(Compression, U(sb.block_size), block, length)

\* a cache keyed by the block offset alone
read_block_keyed_by_offset(cache, block, length) ==
    lru_cache(cache, <<block, NoneInt>>, read_block_body(block, length))

\* SquashFS._read_block behind its lru_cache, keyed by (block, length)
_read_block(cache, block, length) ==
    lru_cache(cache, <<block, length>>, read_block_body(block, length))

\* SquashFS._read_metadata: the loop, with the block cache threaded through
RECURSIVE read_metadata_loop(_, _, _, _, _)
read_metadata_loop(cache, block, offset, length, result) ==
    IF length = 0
    THEN [ok |-> TRUE, cache |-> cache, block |-> block, offset |-> offset,
          data |-> result]
    ELSE LET rb == call("_read_block", <<cache, block, NoneInt>>)
             data == rb.res.data
             remaining == Len(data) - offset
         IN  IF ~rb.res.ok
             THEN [ok |-> FALSE, err |-> rb.res.err, cache |-> rb.cache]
             ELSE IF remaining <= length
             THEN read_metadata_loop(rb.cache, rb.res.next, 0,
                                     length - remaining,
                                     result \o Slice(data, offset, Len(data)))
             ELSE [ok |-> TRUE, cache |-> rb.cache, block |-> block,
                   offset |-> offset + length,
                   data |-> result \o Slice(data, offset, offset + length)]

\* the loop with `remaining < length`: a read that ends exactly on the end
\* of a block stays in that block
RECURSIVE read_metadata_loop_lt(_, _, _, _, _)
read_metadata_loop_lt(cache, block, offset, length, result) ==
    IF length = 0
    THEN [ok |-> TRUE, cache |-> cache, block |-> block, offset |-> offset,
          data |-> result]
    ELSE LET rb == call("_read_block", <<cache, block, NoneInt>>)
             data == rb.res.data
             remaining == Len(data) - offset
         IN  IF ~rb.res.ok
             THEN [ok |-> FALSE, err |-> rb.res.err, cache |-> rb.cache]
             ELSE IF remaining < length
             THEN read_metadata_loop_lt(rb.cache, rb.res.next, 0,
                                        length - remaining,
                                        result \o Slice(data, offset, Len(data)))
             ELSE [ok |-> TRUE, cache |-> rb.cache, block |-> block,
                   offset |-> offset + length,
                   data |-> result \o Slice(data, offset, offset + length)]

read_metadata_stays(cache, block, offset, length) ==
    read_metadata_loop_lt(cache, block, offset, length, <<>>)

_read_metadata(cache, block, offset, length) ==
    read_metadata_loop(cache, block, offset, length, <<>>)

\* SquashFS._read_table: the table's index of block offsets
_read_table(offset, count, entry_size) ==
    IF count = 0 \/ offset = SQUASHFS_INVALID_BLK
    THEN [ok |-> TRUE, table |-> <<>>]
    ELSE LET num_bytes == count * entry_size
             num_blocks == (num_bytes + SQUASHFS_METADATA_SIZE - 1)
                           \div SQUASHFS_METADATA_SIZE
             data == FhRead(U(offset), 8 * num_blocks)
         IN  IF Len(data) < 8 * num_blocks
             THEN [ok |-> FALSE, err |-> "EOFError"]
             ELSE [ok |-> TRUE,
                   table |-> [i \in 1..num_blocks |->
                                 U(Slice(data, 8 * (i - 1), 8 * i))]]

(***************************************************************************)
(* Reads that go through no cache state: the caches are transparent        *)
(* (CacheTransparent below), so a read through an empty cache stands for    *)
(* a read through any cache.                                                *)
(***************************************************************************)
read_metadata(block, offset, length) ==
    call("_read_metadata", <<<<>>, block, offset, length>>)
read_block(block, length) == call("_read_block", <<<<>>, block, length>>).res

(***************************************************************************)
(* INode.  An inode object is a record: block, offset, name (<<>> for       *)
(* None), type and inode_number (0 for None: both are falsy), and parent    *)
(* (<<>> for None, <<p>> for the parent object p).                          *)
(***************************************************************************)
\* SquashFS.inode / INode.__init__
inode(block, offset, name, type, inode_number, parent) ==
    [block |-> block, offset |-> offset, name |-> name, type |-> type,
     inode_number |-> inode_number, parent |-> parent]

\* self.root, as SquashFS.__init__ makes it
root == inode(U(sb.root_inode) \div 65536, U(sb.root_inode) % 65536,
              CH_slash, 0, 0, <<>>)

\* bytes.decode(errors="surrogateescape") of ASCII and of lone high bytes:
\* a byte that is not valid UTF-8 becomes the surrogate U+DC00 + byte
decode(data) ==
    [i \in 1..Len(data) |-> IF data[i] < 128 THEN data[i] ELSE 56320 + data[i]]

\* INode.header: the base header, then the header of the inode's own type
header(node) ==
    LET block == U(sb.inode_table_start) + node.block
        base == read_metadata(block, node.offset,
                              StructLen(squashfs_base_inode_header))
        type == U(ParseStruct(squashfs_base_inode_header, base.data).inode_type)
        actual_struct == INODE_STRUCT_MAP[type]
        full == IF StructLen(actual_struct) # StructLen(squashfs_base_inode_header)
                THEN read_metadata(block, node.offset, StructLen(actual_struct))
                ELSE base
    IN  IF ~base.ok THEN [ok |-> FALSE, err |-> base.err]
        ELSE IF type \notin DOMAIN INODE_STRUCT_MAP
        THEN [ok |-> FALSE, err |-> "TypeError"]
        ELSE IF ~full.ok THEN [ok |-> FALSE, err |-> full.err]
        ELSE [ok |-> TRUE, h |-> ParseStruct(actual_struct, full.data),
              len |-> StructLen(actual_struct)]

\* INode.inode_number
inode_number(node) ==
    IF node.inode_number # 0 THEN node.inode_number
    ELSE U(call("header", <<node>>).h.inode_number)

\* INode.type: TYPE_MAP[self._type or self.header.inode_type]
type(node) ==
    TYPE_MAP[IF node.type # 0 THEN node.type
             ELSE U(call("header", <<node>>).h.inode_type)]

is_dir(node) == call("type", <<node>>) = "S_IFDIR"
is_file(node) == call("type", <<node>>) = "S_IFREG"
is_symlink(node) == call("type", <<node>>) = "S_IFLNK"

\* INode.size
size(node) ==
    IF is_dir(node) \/ is_file(node) THEN U(call("header", <<node>>).h.file_size)
    ELSE IF is_symlink(node) THEN U(call("header", <<node>>).h.symlink_size)
    ELSE 0

\* INode.link
link(node) ==
    IF ~is_symlink(node) THEN [ok |-> FALSE, err |-> "NotASymlinkError"]
    ELSE LET r == read_metadata(U(sb.inode_table_start) + node.block,
                                node.offset + call("header", <<node>>).len,
                                U(call("header", <<node>>).h.symlink_size))
         IN  IF r.ok THEN [ok |-> TRUE, val |-> decode(r.data)]
             ELSE [ok |-> FALSE, err |-> r.err]


\* the number of block-list entries INode.block_list reads for a file of
\* file_size bytes, without (fragment = SQUASHFS_INVALID_FRAG) and with a fragment
block_count(file_size, fragment) ==
    IF fragment = SQUASHFS_INVALID_FRAG
    THEN (file_size + U(sb.block_size) - 1) \div Pow2(U(sb.block_log))
    ELSE file_size \div U(sb.block_size)

\* the fragment bytes INode.block_list appends as the last run
frag_bytes(file_size, fragment) ==
    IF fragment = SQUASHFS_INVALID_FRAG THEN 0 ELSE file_size % U(sb.block_size)

\* INode.block_list: the runs (raw length, 1) of the block list, then the
\* fragment run (None, frag_bytes)
block_list(node) ==
    LET h == call("header", <<node>>).h
        blocks == block_count(U(h.file_size), h.fragment)
        fb == frag_bytes(U(h.file_size), h.fragment)
        m == read_metadata(U(sb.inode_table_start) + node.block,
                           node.offset + call("header", <<node>>).len, blocks * 4)
    IN  (IF blocks # 0
         THEN [i \in 1..blocks |-> <<U(Slice(m.data, 4 * (i - 1), 4 * i)), 1>>]
         ELSE <<>>)
        \o (IF fb # 0 THEN << <<NoneInt, fb>> >> ELSE <<>>)

\* an entry's inode number with the delta taken as unsigned
child_number_unsigned(dir_header, dir_entry) ==
    U(dir_header.inode_number) + U(dir_entry.inode_number)

\* the inode number of an entry: the header's base plus the signed delta
child_number(dir_header, dir_entry) ==
    U(dir_header.inode_number) + S16(dir_entry.inode_number)

\* the entries that follow a directory header
entry_count(dir_header) == U(dir_header.count) + 1

\* INode.iterdir(): a generator that has not run yet.  yielded lists what
\* the generator has yielded so far, reads counts its _read_metadata calls.
iterdir(node) ==
    [pc |-> "created", node |-> node, start |-> 0, offset |-> 0,
     bytes_read |-> 0, dir_header |-> ParseStruct(squashfs_dir_header, <<>>),
     left |-> 0, yielded |-> <<>>, reads |-> 0, err |-> None]

\* the generator from inside its while loop to its next yield, its return or
\* the exception it raises; left is what remains of range(count + 1)
RECURSIVE iterdir_loop(_)
iterdir_loop(g) ==
    IF g.left > 0
    THEN LET e == read_metadata(g.start, g.offset, StructLen(squashfs_dir_entry))
             dir_entry == ParseStruct(squashfs_dir_entry, e.data)
             n == read_metadata(e.block, e.offset, U(dir_entry.size) + 1)
         IN  IF ~e.ok THEN [g EXCEPT !.pc = "raised", !.err = e.err]
             ELSE IF ~n.ok THEN [g EXCEPT !.pc = "raised", !.err = n.err]
             ELSE [g EXCEPT
                     !.pc = "suspended", !.start = n.block, !.offset = n.offset,
                     !.bytes_read = @ + Len(e.data) + Len(n.data),
                     !.left = @ - 1, !.reads = @ + 2,
                     !.yielded = Append(@,
                         inode(U(g.dir_header.start_block), U(dir_entry.offset),
                               decode(n.data), U(dir_entry.type),
                               child_number(g.dir_header, dir_entry),
                               <<g.node>>))]
    ELSE IF g.bytes_read < call("size", <<g.node>>) - 3
    THEN LET h == read_metadata(g.start, g.offset, StructLen(squashfs_dir_header))
         IN  IF ~h.ok THEN [g EXCEPT !.pc = "raised", !.err = h.err]
             ELSE iterdir_loop(
                    [g EXCEPT !.start = h.block, !.offset = h.offset,
                              !.bytes_read = @ + Len(h.data), !.reads = @ + 1,
                              !.dir_header = ParseStruct(squashfs_dir_header, h.data),
                              !.left = entry_count(
                                  ParseStruct(squashfs_dir_header, h.data))])
    ELSE [g EXCEPT !.pc = "done"]

\* next() on a generator of iterdir
iterdir_next(g) ==
    IF g.pc = "suspended" THEN call("iterdir_loop", <<g>>)
    ELSE IF ~is_dir(g.node)
    THEN [g EXCEPT !.pc = "raised", !.err = "NotADirectoryError"]
    ELSE IF call("size", <<g.node>>) = 3 THEN [g EXCEPT !.pc = "done"]
    ELSE call("iterdir_loop", <<
           [g EXCEPT !.start = U(sb.directory_table_start)
                                   + U(call("header", <<g.node>>).h.start_block),
                     !.offset = U(call("header", <<g.node>>).h.offset)]>>)

\* a for loop over a generator of iterdir, run to its end
RECURSIVE exhaust(_)
exhaust(g) ==
    IF g.pc \in {"done", "raised"} THEN g
    ELSE exhaust(call("iterdir_next", <<g>>))

\* INode.listdir: the dict {inode.name: inode for inode in self.iterdir()};
\* a later entry of the same name replaces an earlier one
listdir(node) ==
    LET g == call("exhaust", <<iterdir(node)>>)
        names == {g.yielded[i].name : i \in 1..Len(g.yielded)}
    IN  IF g.pc = "raised" THEN [ok |-> FALSE, err |-> g.err]
        ELSE [ok |-> TRUE,
              val |-> [nm \in names |->
                         g.yielded[CHOOSE i \in 1..Len(g.yielded) :
                                     /\ g.yielded[i].name = nm
                                     /\ \A j \in (i + 1)..Len(g.yielded) :
                                            g.yielded[j].name # nm]]]

\* FileStream.__init__: what RunlistStream and the stream keep of the inode
FileStream(node) ==
    [runlist |-> call("block_list", <<node>>), size |-> call("size", <<node>>),
     block_size |-> U(sb.block_size),
     start_block |-> U(call("header", <<node>>).h.start_block),
     fragment |-> call("header", <<node>>).h.fragment,
     fragment_offset |-> U(call("header", <<node>>).h.offset)]

\* INode.open
open(node) ==
    IF ~is_file(node) THEN [ok |-> FALSE, err |-> "NotAFileError"]
    ELSE [ok |-> TRUE, val |-> call("FileStream", <<node>>)]

\* a cache that also keeps, as an empty value, a call that raised
cached_keeps_failure(entries, node, r) ==
    IF \E e \in entries : e[1] = node
    THEN [entries |-> entries,
          res |-> [ok |-> TRUE, val |-> (CHOOSE e \in entries : e[1] = node)[2]]]
    ELSE [entries |-> entries \union {<<node, IF r.ok THEN r.val ELSE <<>>>>},
          res |-> r]

\* functools.cached_property and functools.cache on a method: the value of
\* the first call that returned is kept with the object (entries is a set of
\* <<object, value>>); a call that raised keeps nothing
cached(entries, node, r) ==
    IF \E e \in entries : e[1] = node
    THEN [entries |-> entries,
          res |-> [ok |-> TRUE, val |-> (CHOOSE e \in entries : e[1] = node)[2]]]
    ELSE [entries |-> IF r.ok THEN entries \union {<<node, r.val>>} ELSE entries,
          res |-> r]

\* next(node.iterdir()): the first child, or nothing from an empty directory
iterdir_first(node) ==
    LET g == call("iterdir_next", <<iterdir(node)>>)
    IN  IF g.pc = "raised" THEN [ok |-> FALSE, err |-> g.err]
        ELSE [ok |-> TRUE, val |-> g.yielded]

(***************************************************************************)
(* SquashFS.get and INode.link_inode.  A call of get is a frame: the parts  *)
(* of the path, the index of the part the for loop stands at, and node.     *)
(* link_inode calls get, so the calls in progress are a stack of frames.    *)
(***************************************************************************)
\* str.split("/")
RECURSIVE split(_)
split(path) ==
    IF \A i \in 1..Len(path) : path[i] # CH_slash[1] THEN <<path>>
    ELSE LET i == CHOOSE k \in 1..Len(path) :
                      /\ path[k] = CH_slash[1]
                      /\ \A j \in 1..(k - 1) : path[j] # CH_slash[1]
         IN  <<SubSeq(path, 1, i - 1)>> \o split(SubSeq(path, i + 1, Len(path)))

\* link.startswith("/")
startswith_slash(path) == Len(path) > 0 /\ path[1] = CH_slash[1]

\* link_inode with every target resolved from the root
relnode_root(node) == <<>>

\* the node INode.link_inode resolves the link from: None for a target that
\* starts with "/", else the symlink's parent
relnode(node) ==
    IF startswith_slash(call("link", <<node>>).val) THEN <<>> ELSE node.parent

\* the frame of get(path, node) at its first part: node = node or self.root
get(path, node) ==
    [parts |-> split(path), part_num |-> 0,
     node |-> IF node = <<>> THEN root ELSE node[1]]

\* the for loop over node.iterdir() of get: the first entry named part
RECURSIVE find_entry(_, _)
find_entry(g, part) ==
    LET n == call("iterdir_next", <<g>>)
    IN  IF n.pc = "raised" THEN [ok |-> FALSE, err |-> n.err]
        ELSE IF n.pc = "done" THEN [ok |-> FALSE, err |-> "FileNotFoundError"]
        ELSE IF n.yielded[Len(n.yielded)].name = part
        THEN [ok |-> TRUE, val |-> n.yielded[Len(n.yielded)]]
        ELSE find_entry(n, part)

\* a call returns value: to the while loop of the get that called
\* link_inode (node = node.link_inode), or to the client
return(w, value) ==
    LET callers == SubSeq(w.stack, 1, Len(w.stack) - 1)
    IN  IF callers = <<>>
        THEN [w EXCEPT !.pc = "returned", !.stack = <<>>,
                       !.res = [ok |-> TRUE, val |-> value]]
        ELSE [w EXCEPT !.stack =
                 [callers EXCEPT ![Len(callers)] = [@ EXCEPT !.node = value]]]

\* an exception: get catches nothing, it ends every call in progress
raise(w, err) ==
    [w EXCEPT !.pc = "raised", !.stack = <<>>, !.res = [ok |-> FALSE, err |-> err]]

(***************************************************************************)
(* SquashFS.__init__ and the block count of INode.block_list.               *)
(***************************************************************************)
\* an image with one superblock field overwritten
WithField(image, field, bytes) ==
    LET i == CHOOSE j \in 1..Len(squashfs_super_block) :
                 squashfs_super_block[j][1] = field
        at == FieldOffset(squashfs_super_block, i)
    IN  SubSeq(image, 1, at) \o bytes \o SubSeq(image, at + Len(bytes) + 1, Len(image))

\* the three tables of a superblock, or the first failure
read_tables(s) ==
    LET ids == _read_table(s.id_table_start, U(s.no_ids), 4)
        lookup == _read_table(s.lookup_table_start, U(s.inodes), 8)
        frags == _read_table(s.fragment_table_start, U(s.fragments),
                             StructLen(squashfs_fragment_entry))
    IN  IF ~ids.ok THEN ids
        ELSE IF ~lookup.ok THEN lookup
        ELSE IF ~frags.ok THEN frags
        ELSE [ok |-> TRUE,
              table |-> [id_table |-> ids.table, lookup_table |-> lookup.table,
                         fragment_table |-> frags.table]]

NoTables == [id_table |-> <<>>, lookup_table |-> <<>>, fragment_table |-> <<>>]

\* SquashFS.__init__(fh)
SquashFS_init ==
    /\ status = "new"
    /\ LET s == ParseStruct(squashfs_super_block,
                            FhRead(0, StructLen(squashfs_super_block)))
           hasOpt == (U(s.flags) \div Pow2(SQUASHFS_COMP_OPT)) % 2 = 1
           opt == read_block_with("unset", U(s.block_size),
                                  StructLen(squashfs_super_block), NoneInt)
           t == read_tables(s)
           outcome ==
               IF Len(fh) < StructLen(squashfs_super_block) THEN "EOFError"
               ELSE IF U(s.s_magic) # SQUASHFS_MAGIC THEN "ValueError"
               ELSE IF U(s.s_major) # 4 THEN "NotImplementedError"
               ELSE IF hasOpt /\ ~opt.ok THEN opt.err
               ELSE IF initialize(U(s.compression)) = None THEN "ValueError"
               ELSE IF ~t.ok THEN t.err
               ELSE "ready"
       IN  /\ status' = outcome
           /\ sb' = IF Len(fh) >= StructLen(squashfs_super_block)
                       /\ U(s.s_magic) = SQUASHFS_MAGIC /\ U(s.s_major) = 4
                    THEN s ELSE sb
           /\ tables' = IF outcome = "ready" THEN t.table ELSE tables
    /\ UNCHANGED <<fh, blocks_seen, exceptSuper>>

\* INode.block_list on a file inode of a ready reader: the counts only
BlockCount(file_size, fragment) ==
    /\ status = "ready"
    /\ blocks_seen' = [file_size |-> file_size,
                       blocks |-> block_count(file_size, fragment),
                       frag_bytes |-> frag_bytes(file_size, fragment)]
    /\ UNCHANGED <<readerVars, exceptSuper>>

NoBlocks == [file_size |-> 0, blocks |-> 0, frag_bytes |-> 0]
NoCall == [op |-> "none"]
IdleCaches ==
    /\ block_cache = <<>>
    /\ id_cache = <<>>
    /\ inode_cache = <<>>
    /\ frag_cache = <<>>
    /\ last = NoCall
    /\ inum = 1
    /\ calls = 0

IdleSuper == blocks_seen = NoBlocks
IdleMeta == mr = [stage |-> 0]
IdleDir == gen = [pc |-> "idle"]
IdleOps == ops = [pc |-> "idle"]
IdleWalk == walk = [pc |-> "idle"]
IdleStream == stream = [pc |-> "idle"]

\* a reader constructed on image: the state SquashFS.__init__ leaves
Ready(image) ==
    /\ fh = image
    /\ sb = ParseStruct(squashfs_super_block,
                        FhRead(0, StructLen(squashfs_super_block)))
    /\ status = "ready"
    /\ tables = read_tables(sb).table

\* file sizes around the block sizes of the superblocks below
SuperFileSizes == {0, 1, 4096, 4097, 8192, 12288}

InitSuper ==
    /\ \E magic \in {SQUASHFS_MAGIC, SQUASHFS_MAGIC + 1},
          major \in {3, 4, 5},
          log \in {11, 12, 13, 20, 21},
          bsize \in {4096, 8192},
          comp \in {0, 1, 6},
          opt \in BOOLEAN :
          fh = WithField(WithField(WithField(WithField(WithField(
                   mksquashfs([DefaultImage EXCEPT !.compOpt = opt]).image,
                   "s_magic", LE(4, magic)),
                   "s_major", LE(2, major)),
                   "block_log", LE(2, log)),
                   "block_size", LE(4, bsize)),
                   "compression", LE(2, comp))
    /\ sb = <<>>
    /\ status = "new"
    /\ tables = NoTables
    /\ IdleSuper /\ IdleCaches /\ IdleMeta /\ IdleDir /\ IdleOps /\ IdleWalk
    /\ IdleStream

NextSuper ==
    \/ SquashFS_init
    \/ \E n \in SuperFileSizes, frag \in {SQUASHFS_INVALID_FRAG, LE(4, 0)} :
           BlockCount(n, frag)

SpecSuper == InitSuper /\ [][NextSuper]_vars

(***************************************************************************)
(* The cached lookups.  Each takes the caches it goes through and returns  *)
(* them with its result.                                                    *)
(***************************************************************************)
\* the body of SquashFS._lookup_id
lookup_id_body(bc, id) ==
    LET block == (id * 4) \div SQUASHFS_METADATA_SIZE
        offset == (id * 4) % SQUASHFS_METADATA_SIZE
        m == call("_read_metadata", <<bc, tables.id_table[block + 1], offset, 4>>)
    IN  IF block + 1 > Len(tables.id_table)
        THEN [bc |-> bc, res |-> [ok |-> FALSE, err |-> "IndexError"]]
        ELSE IF ~m.ok THEN [bc |-> m.cache, res |-> [ok |-> FALSE, err |-> m.err]]
        ELSE [bc |-> m.cache, res |-> [ok |-> TRUE, val |-> U(m.data)]]

\* SquashFS.get(path) for an integer path
get_packed(path) ==
    inode(path \div 65536, path % 65536, <<>>, 0, 0, <<>>)

\* the body of SquashFS._lookup_inode
lookup_inode_body(bc, number) ==
    LET block == ((number - 1) * 8) \div SQUASHFS_METADATA_SIZE
        offset == ((number - 1) * 8) % SQUASHFS_METADATA_SIZE
        m == call("_read_metadata", <<bc, tables.lookup_table[block + 1], offset, 8>>)
    IN  IF number <= 0 \/ number > U(sb.inodes)
        THEN [bc |-> bc, res |-> [ok |-> FALSE, err |-> "IndexError"]]
        ELSE IF block + 1 > Len(tables.lookup_table)
        THEN [bc |-> bc, res |-> [ok |-> FALSE, err |-> "IndexError"]]
        ELSE IF ~m.ok THEN [bc |-> m.cache, res |-> [ok |-> FALSE, err |-> m.err]]
        ELSE [bc |-> m.cache, res |-> [ok |-> TRUE, val |-> get_packed(U(m.data))]]

\* the body of SquashFS._lookup_fragment
lookup_fragment_body(bc, fragment) ==
    LET fragment_offset == fragment * StructLen(squashfs_fragment_entry)
        block == fragment_offset \div SQUASHFS_METADATA_SIZE
        offset == fragment_offset % SQUASHFS_METADATA_SIZE
        m == call("_read_metadata", <<bc, tables.fragment_table[block + 1], offset,
                            StructLen(squashfs_fragment_entry)>>)
    IN  IF block + 1 > Len(tables.fragment_table)
        THEN [bc |-> bc, res |-> [ok |-> FALSE, err |-> "IndexError"]]
        ELSE IF ~m.ok THEN [bc |-> m.cache, res |-> [ok |-> FALSE, err |-> m.err]]
        ELSE [bc |-> m.cache,
              res |-> [ok |-> TRUE,
                       val |-> ParseStruct(squashfs_fragment_entry, m.data)]]

\* a lookup behind its lru_cache: on a hit the body does not run and the
\* block cache is left alone
cached_lookup(bc, cache, key, body) ==
    IF LruHit(cache, key)
    THEN [bc |-> bc, cache |-> LruTouch(cache, key), res |-> LruValue(cache, key)]
    ELSE [bc |-> body.bc, cache |-> lru_cache(cache, key, body.res).cache,
          res |-> body.res]

_lookup_id(bc, cache, id) ==
    cached_lookup(bc, cache, id, call("lookup_id_body", <<bc, id>>))
_lookup_inode(bc, cache, n) ==
    cached_lookup(bc, cache, n, call("lookup_inode_body", <<bc, n>>))
_lookup_fragment(bc, cache, i) ==
    cached_lookup(bc, cache, i, call("lookup_fragment_body", <<bc, i>>))

(***************************************************************************)
(* The reader under a client that reads blocks and looks up ids, inodes     *)
(* and fragments in any order.  last.hit says whether the call was served   *)
(* from its own cache (functools' cache_info().hits went up).               *)
(***************************************************************************)
\* the calls the client makes
MaxCalls == 3
\* the calls of get in progress at which the interpreter raises RecursionError
MaxDepth == 3

ReadBlock(block, length) ==
    /\ status = "ready" /\ calls < MaxCalls
    /\ LET r == call("_read_block", <<block_cache, block, length>>)
       IN  /\ block_cache' = r.cache
           /\ last' = [op |-> "_read_block", block |-> block, length |-> length,
                       hit |-> LruHit(block_cache, <<block, length>>),
                       res |-> r.res]
    /\ calls' = calls + 1
    /\ UNCHANGED <<readerVars, exceptCache, id_cache, inode_cache, frag_cache, inum>>

LookupId(id) ==
    /\ status = "ready" /\ calls < MaxCalls
    /\ LET r == call("_lookup_id", <<block_cache, id_cache, id>>)
       IN  /\ block_cache' = r.bc
           /\ id_cache' = r.cache
           /\ last' = [op |-> "_lookup_id", arg |-> id,
                       hit |-> LruHit(id_cache, id), res |-> r.res]
    /\ calls' = calls + 1
    /\ UNCHANGED <<readerVars, exceptCache, inode_cache, frag_cache, inum>>

LookupInode(n) ==
    /\ status = "ready" /\ calls < MaxCalls
    /\ LET r == call("_lookup_inode", <<block_cache, inode_cache, n>>)
       IN  /\ block_cache' = r.bc
           /\ inode_cache' = r.cache
           /\ last' = [op |-> "_lookup_inode", arg |-> n,
                       hit |-> LruHit(inode_cache, n), res |-> r.res]
    /\ calls' = calls + 1
    /\ UNCHANGED <<readerVars, exceptCache, id_cache, frag_cache, inum>>

LookupFragment(i) ==
    /\ status = "ready" /\ calls < MaxCalls
    /\ LET r == call("_lookup_fragment", <<block_cache, frag_cache, i>>)
       IN  /\ block_cache' = r.bc
           /\ frag_cache' = r.cache
           /\ last' = [op |-> "_lookup_fragment", arg |-> i,
                       hit |-> LruHit(frag_cache, i), res |-> r.res]
    /\ calls' = calls + 1
    /\ UNCHANGED <<readerVars, exceptCache, id_cache, inode_cache, inum>>

\* one step of SquashFS.iter_inodes: yield self._lookup_inode(inum)
IterInodes ==
    /\ status = "ready" /\ calls < MaxCalls
    /\ inum <= U(sb.inodes)
    /\ LET r == call("_lookup_inode", <<block_cache, inode_cache, inum>>)
       IN  /\ block_cache' = r.bc
           /\ inode_cache' = r.cache
           /\ last' = [op |-> "iter_inodes", arg |-> inum,
                       hit |-> LruHit(inode_cache, inum), res |-> r.res]
    /\ inum' = inum + 1
    /\ calls' = calls + 1
    /\ UNCHANGED <<readerVars, exceptCache, id_cache, frag_cache>>

\* /f, by its inode number
FileF == call("lookup_inode_body", <<<<>>, 1>>).res.val

\* block reads: metadata blocks (the first inode block, the lookup entries,
\* the superblock taken for a block, the last byte of the image) and the
\* data blocks of /f
BlockReads ==
    {<<U(sb.inode_table_start), NoneInt>>, <<tables.lookup_table[1], NoneInt>>,
     <<0, NoneInt>>, <<Len(fh) - 1, NoneInt>>}
    \cup {<<U(call("header", <<FileF>>).h.start_block),
            call("block_list", <<FileF>>)[1][1]>>,
          <<tables.lookup_table[1], SQUASHFS_COMPRESSED_BIT_BLOCK + 2>>}

InitCache ==
    /\ \E mc \in BOOLEAN :
           Ready(mksquashfs([DefaultImage EXCEPT !.metaComp = mc]).image)
    /\ IdleSuper /\ IdleCaches /\ IdleMeta /\ IdleDir /\ IdleOps /\ IdleWalk
    /\ IdleStream

NextCache ==
    \/ \E r \in BlockReads : ReadBlock(r[1], r[2])
    \/ \E id \in 0..2 : LookupId(id)
    \/ \E n \in {0, 1, U(sb.inodes), U(sb.inodes) + 1} : LookupInode(n)
    \/ \E i \in 0..1 : LookupFragment(i)
    \/ IterInodes

SpecCache == InitCache /\ [][NextCache]_vars

(***************************************************************************)
(* FileStream._read, and the RunlistStream / AlignedStream of dissect.util  *)
(* that calls it: read(n) and seek(pos) over a buffer of one aligned block. *)
(***************************************************************************)
\* SquashFS._read_fragment
_read_fragment(fragment, offset, length) ==
    LET entry == call("lookup_fragment_body", <<<<>>, U(fragment)>>).res
        b == read_block(U(entry.val.start_block), U(entry.val.size))
    IN  IF ~entry.ok THEN [ok |-> FALSE, data |-> <<>>]
        ELSE IF ~b.ok THEN [ok |-> FALSE, data |-> <<>>]
        ELSE [ok |-> TRUE, data |-> Slice(b.data, offset, offset + length)]

\* RunlistStream.runlist (setter): the first block of every run but the first
runlist_offsets(runlist) ==
    SelectSeq([i \in 1..Len(runlist) |->
                  SumSeq([j \in 1..(i - 1) |-> runlist[j][2]])],
              LAMBDA offset : offset # 0)

\* bisect.bisect_right on a sorted list
bisect_right(a, x) == Cardinality({i \in 1..Len(a) : a[i] <= x})

\* v & ~SQUASHFS_COMPRESSED_BIT_BLOCK
clear_compressed_bit(v) ==
    v - ((v \div SQUASHFS_COMPRESSED_BIT_BLOCK) % 2) * SQUASHFS_COMPRESSED_BIT_BLOCK

\* the position of a run with the block-list entries summed as they are
start_block_sum_raw(s, run_idx) ==
    s.start_block + SumSeq([i \in 1..run_idx |-> s.runlist[i][1]])

\* the on-disk position of run run_idx: start_block plus the stored lengths
\* of the runs before it
start_block_of(s, run_idx) ==
    s.start_block
    + SumSeq([i \in 1..run_idx |-> clear_compressed_bit(s.runlist[i][1])])

\* the while loop of FileStream._read.  acc is r and a record of what the
\* loop did: runs lists the run_idx of every iteration that read a run, at
\* the <<run_idx, start_block>> of every _read_block call
RECURSIVE read_loop(_, _, _, _, _, _)
read_loop(s, offset, length, run_idx, start_block, acc) ==
    IF length <= 0 \/ run_idx >= Len(s.runlist) THEN acc
    ELSE LET run_block_size == s.runlist[run_idx + 1][1]
             run_block_count == s.runlist[run_idx + 1][2]
             run_pos == offset - run_idx * s.block_size
             run_remaining == s.block_size - run_pos
             read_count == Min(s.size - offset, Min(run_remaining, length))
             frag == call("_read_fragment",
                          <<s.fragment, s.fragment_offset, run_block_count>>)
             b == read_block(start_block, run_block_size)
         IN  IF run_block_size = NoneInt
             THEN IF ~frag.ok THEN [acc EXCEPT !.ok = FALSE]
                  ELSE read_loop(s, offset + run_block_count,
                                 length - run_block_count, run_idx, start_block,
                                 [acc EXCEPT !.data = @ \o frag.data,
                                             !.runs = Append(@, run_idx)])
             ELSE IF run_remaining < 0 THEN acc
             ELSE IF run_block_size = 0
             THEN read_loop(s, offset + read_count, length - read_count,
                            run_idx + 1, start_block,
                            [acc EXCEPT !.data = @ \o Repeat(0, read_count),
                                        !.runs = Append(@, run_idx)])
             ELSE IF ~b.ok THEN [acc EXCEPT !.ok = FALSE]
             ELSE read_loop(s, offset + read_count, length - read_count,
                            run_idx + 1, b.next,
                            [acc EXCEPT !.data = @ \o Slice(b.data, 0, read_count),
                                        !.runs = Append(@, run_idx),
                                        !.at = Append(@, <<run_idx, start_block>>)])

\* FileStream._read
_read(s, offset, length) ==
    LET run_idx == bisect_right(runlist_offsets(s.runlist), offset \div s.block_size)
    IN  call("read_loop", <<s, offset, length, run_idx, start_block_of(s, run_idx),
                  [ok |-> TRUE, offset |-> offset, length |-> length,
                   data |-> <<>>, runs |-> <<>>, at |-> <<>>]>>)

\* AlignedStream._set_pos; the buffer None is the empty buffer
_set_pos(st, pos) ==
    IF st._pos_align # pos - (pos % st.s.block_size)
    THEN [st EXCEPT !._pos_align = pos - (pos % st.s.block_size),
                    !._buf = <<>>, !._pos = pos]
    ELSE [st EXCEPT !._pos = pos]

\* AlignedStream._fill_buf
_fill_buf(st) ==
    LET rd == call("_read", <<st.s, st._pos_align, st.s.block_size>>)
    IN  [st EXCEPT !._buf = rd.data, !.rds = Append(@, rd)]

\* AlignedStream.read, "Read misaligned start from buffer"
read_start(st) ==
    IF st._pos = st._pos_align THEN st
    ELSE LET f == IF st._buf = <<>> THEN call("_fill_buf", <<st>>) ELSE st
             buffer_pos == f._pos - f._pos_align
             buffer_len == Min(f.n, f.s.block_size - buffer_pos)
         IN  _set_pos([f EXCEPT !.n = @ - buffer_len,
                                !.r = @ \o Slice(f._buf, buffer_pos,
                                                 buffer_pos + buffer_len)],
                      f._pos + buffer_len)

\* AlignedStream.read, "Aligned blocks"
read_aligned(st) ==
    IF st.n < st.s.block_size THEN st
    ELSE LET read_len == (st.n \div st.s.block_size) * st.s.block_size
             rd == call("_read", <<st.s, st._pos, read_len>>)
         IN  _set_pos([st EXCEPT !.n = @ % st.s.block_size, !.r = @ \o rd.data,
                                 !.rds = Append(@, rd)],
                      st._pos + read_len)

\* AlignedStream.read, "Misaligned remaining bytes"
read_remaining(st) ==
    IF st.n <= 0 THEN st
    ELSE LET f == call("_fill_buf", <<st>>)
         IN  _set_pos([f EXCEPT !.r = @ \o Slice(f._buf, 0, f.n)], f._pos + f.n)

\* AlignedStream.read(n) on a sized stream: st.r is the bytes returned and
\* st.rds the calls of _read it made
read(st, n) ==
    LET remaining == st.s.size - st._pos
        count == IF n = -1 THEN remaining ELSE Min(n, remaining)
        st0 == [st EXCEPT !.n = count, !.r = <<>>, !.rds = <<>>]
    IN  IF count = 0 \/ st.s.size <= st._pos THEN st0
        ELSE call("read_remaining",
                  <<call("read_aligned", <<call("read_start", <<st0>>)>>)>>)

\* a method call by name: args is the tuple of the call's arguments
call(name, args) ==
    CASE name = "_read_block" -> _read_block(args[1], args[2], args[3])
      [] name = "_read_metadata" ->
             _read_metadata(args[1], args[2], args[3], args[4])
      [] name = "_read_fragment" -> _read_fragment(args[1], args[2], args[3])
      [] name = "lookup_id_body" -> lookup_id_body(args[1], args[2])
      [] name = "lookup_inode_body" -> lookup_inode_body(args[1], args[2])
      [] name = "lookup_fragment_body" -> lookup_fragment_body(args[1], args[2])
      [] name = "_lookup_id" -> _lookup_id(args[1], args[2], args[3])
      [] name = "_lookup_inode" -> _lookup_inode(args[1], args[2], args[3])
      [] name = "_lookup_fragment" -> _lookup_fragment(args[1], args[2], args[3])
      [] name = "header" -> header(args[1])
      [] name = "inode_number" -> inode_number(args[1])
      [] name = "type" -> type(args[1])
      [] name = "size" -> size(args[1])
      [] name = "link" -> link(args[1])
      [] name = "block_list" -> block_list(args[1])
      [] name = "iterdir_loop" -> iterdir_loop(args[1])
      [] name = "iterdir_next" -> iterdir_next(args[1])
      [] name = "iterdir_first" -> iterdir_first(args[1])
      [] name = "exhaust" -> exhaust(args[1])
      [] name = "listdir" -> listdir(args[1])
      [] name = "find_entry" -> find_entry(args[1], args[2])
      [] name = "open" -> open(args[1])
      [] name = "FileStream" -> FileStream(args[1])
      [] name = "_read" -> _read(args[1], args[2], args[3])
      [] name = "read_loop" ->
             read_loop(args[1], args[2], args[3], args[4], args[5], args[6])
      [] name = "_fill_buf" -> _fill_buf(args[1])
      [] name = "read_start" -> read_start(args[1])
      [] name = "read_aligned" -> read_aligned(args[1])
      [] name = "read_remaining" -> read_remaining(args[1])
      [] name = "read" -> read(args[1], args[2])

\* the stream INode.open() returns, at position 0 with no buffer
opened(node) ==
    [pc |-> "open", s |-> call("open", <<node>>).val, _pos |-> 0, _pos_align |-> 0,
     _buf |-> <<>>, n |-> 0, r |-> <<>>, rds |-> <<>>,
     last |-> [op |-> "open", pos |-> 0, n |-> 0]]

(***************************************************************************)
(* File streams: a client that opens /f and calls seek and read with any    *)
(* positions and sizes.  last is the client's call.                         *)
(***************************************************************************)
OpenF ==
    /\ status = "ready" /\ stream.pc = "closed"
    /\ stream' = opened(FileF)
    /\ UNCHANGED <<readerVars, exceptStream>>

Seek(pos) ==
    /\ status = "ready" /\ stream.pc = "open"
    /\ stream' = [_set_pos(stream, pos) EXCEPT
                     !.last = [op |-> "seek", pos |-> pos, n |-> 0]]
    /\ UNCHANGED <<readerVars, exceptStream>>

Read(n) ==
    /\ status = "ready" /\ stream.pc = "open"
    /\ stream' = [call("read", <<stream, n>>) EXCEPT
                     !.last = [op |-> "read", pos |-> stream._pos, n |-> n]]
    /\ UNCHANGED <<readerVars, exceptStream>>

\* /f: its full blocks, the bytes of its tail, and how the tail is stored
Files ==
    {[full |-> <<"C", "R">>, tail |-> 1, last |-> "F", fragComp |-> FALSE],
     [full |-> <<"S", "C">>, tail |-> block_size - 1, last |-> "F", fragComp |-> TRUE],
     [full |-> <<>>, tail |-> block_size - 1, last |-> "F", fragComp |-> FALSE],
     [full |-> <<"R", "S", "C">>, tail |-> 0, last |-> "F", fragComp |-> FALSE],
     [full |-> <<"C">>, tail |-> 2, last |-> "R", fragComp |-> FALSE],
     [full |-> <<"R">>, tail |-> 2, last |-> "C", fragComp |-> TRUE],
     [full |-> <<"C", "R">>, tail |-> 1, last |-> "S", fragComp |-> FALSE],
     [full |-> <<>>, tail |-> 0, last |-> "F", fragComp |-> FALSE]}

ReadSizes == {-1, 1, block_size - 1, block_size, block_size + 1, 2 * block_size + 1}

InitStream ==
    /\ \E f \in Files :
           Ready(mksquashfs([DefaultImage EXCEPT
                               !.full = f.full, !.tail = f.tail, !.last = f.last,
                               !.fragComp = f.fragComp]).image)
    /\ stream = [pc |-> "closed"]
    /\ IdleSuper /\ IdleCaches /\ IdleMeta /\ IdleDir /\ IdleOps /\ IdleWalk

NextStream ==
    \/ OpenF
    \/ \E pos \in 0..size(FileF) : Seek(pos)
    \/ \E n \in ReadSizes : Read(n)

SpecStream == InitStream /\ [][NextStream]_vars

(***************************************************************************)
(* The metadata stream: a read of a + b bytes in two calls, the second      *)
(* from the cursor the first returned, and in one call.                     *)
(***************************************************************************)
\* the offsets of the first n metadata blocks of the stream that starts at start
RECURSIVE MetaChain(_, _)
MetaChain(start, n) ==
    IF n = 0 \/ ~read_block(start, NoneInt).ok THEN <<>>
    ELSE <<start>> \o MetaChain(read_block(start, NoneInt).next, n - 1)

\* the payload of the metadata block at block
Payload(block) == read_block(block, NoneInt).data

MetaFirst(block, offset, a) ==
    /\ status = "ready" /\ mr.stage = 0
    /\ mr' = [stage |-> 1, block |-> block, offset |-> offset, a |-> a,
              first |-> read_metadata(block, offset, a)]
    /\ UNCHANGED <<readerVars, exceptMeta>>

MetaSecond(b) ==
    /\ status = "ready" /\ mr.stage = 1 /\ mr.first.ok
    /\ mr' = [stage |-> 2, block |-> mr.block, offset |-> mr.offset, a |-> mr.a,
              b |-> b, first |-> mr.first,
              second |-> read_metadata(mr.first.block, mr.first.offset, b)]
    /\ UNCHANGED <<readerVars, exceptMeta>>

MetaWhole ==
    /\ status = "ready" /\ mr.stage = 2
    /\ mr' = [stage |-> 3, block |-> mr.block, offset |-> mr.offset, a |-> mr.a,
              b |-> mr.b, first |-> mr.first, second |-> mr.second,
              whole |-> read_metadata(mr.block, mr.offset, mr.a + mr.b)]
    /\ UNCHANGED <<readerVars, exceptMeta>>

\* lengths that end inside a block, exactly on its end, and in later blocks
MetaLengths == {0, 1, MetaChunk - 3, MetaChunk, MetaChunk + 4, 2 * MetaChunk}
MetaOffsets == {0, 3, MetaChunk - 1}

InitMeta ==
    /\ \E mc \in BOOLEAN :
           Ready(mksquashfs([DefaultImage EXCEPT !.metaComp = mc,
                                                 !.dirChunk = MetaChunk]).image)
    /\ IdleSuper /\ IdleCaches /\ IdleMeta /\ IdleDir /\ IdleOps /\ IdleWalk
    /\ IdleStream

NextMeta ==
    \/ \E i \in 1..3, offset \in MetaOffsets, a \in MetaLengths :
           MetaFirst(MetaChain(U(sb.directory_table_start), 3)[i], offset, a)
    \/ \E b \in MetaLengths : MetaSecond(b)
    \/ MetaWhole

SpecMeta == InitMeta /\ [][NextMeta]_vars

(***************************************************************************)
(* Directories: a client that takes an inode object, calls iterdir() on it  *)
(* and calls next() on the generator until it is exhausted.                 *)
(***************************************************************************)
\* the inode objects a client can hold: the root, the inodes by number
\* (without a name, a type or a parent), and the children the root and its
\* subdirectories yield (with all three)
ByNumber == {call("lookup_inode_body", <<<<>>, n>>).res.val : n \in 1..U(sb.inodes)}
ChildrenOf(node) ==
    LET g == call("exhaust", <<iterdir(node)>>)
    IN  {g.yielded[i] : i \in 1..Len(g.yielded)}
Objects ==
    {root} \union ByNumber \union ChildrenOf(root)
    \union UNION {ChildrenOf(c) : c \in {x \in ChildrenOf(root) : is_dir(x)}}

Iterdir(node) ==
    /\ status = "ready" /\ gen.pc \in {"idle", "done", "raised"}
    /\ gen' = iterdir(node)
    /\ UNCHANGED <<readerVars, exceptDir>>

IterdirNext ==
    /\ status = "ready" /\ gen.pc \in {"created", "suspended"}
    /\ gen' = call("iterdir_next", <<gen>>)
    /\ UNCHANGED <<readerVars, exceptDir>>

InitDir ==
    /\ \E chunk \in {MetaChunk, SQUASHFS_METADATA_SIZE}, mc \in BOOLEAN :
           Ready(mksquashfs([DefaultImage EXCEPT !.metaComp = mc,
                                                 !.dirChunk = chunk]).image)
    /\ IdleSuper /\ IdleCaches /\ IdleMeta /\ IdleDir /\ IdleOps /\ IdleWalk
    /\ IdleStream

NextDir ==
    \/ \E node \in Objects : Iterdir(node)
    \/ IterdirNext

SpecDir == InitDir /\ [][NextDir]_vars

(***************************************************************************)
(* Inode operations: a client that holds inode objects of every type and    *)
(* calls open(), link, listdir() and iterdir() on them in any order.  link  *)
(* and listdir() keep their value with the object.                          *)
(***************************************************************************)
\* the objects held: the root; /a and /d as the root yields them (with a
\* type); /f, /d/s and /c by inode number (their type is in their header)
Named(node, name) == CHOOSE c \in ChildrenOf(node) : c.name = name
Held ==
    {root, Named(root, CH_a), Named(root, CH_d)}
    \union {call("lookup_inode_body", <<<<>>, n>>).res.val : n \in {1, 3, 7}}

Open(node) ==
    /\ status = "ready" /\ ops.pc # "idle"
    /\ ops' = [ops EXCEPT !.pc = "called",
                          !.last = [op |-> "open", node |-> node,
                                    res |-> call("open", <<node>>)]]
    /\ UNCHANGED <<readerVars, exceptOps>>

Link(node) ==
    /\ status = "ready" /\ ops.pc # "idle"
    /\ LET c == cached(ops.links, node, call("link", <<node>>))
       IN  ops' = [ops EXCEPT !.pc = "called", !.links = c.entries,
                              !.last = [op |-> "link", node |-> node, res |-> c.res]]
    /\ UNCHANGED <<readerVars, exceptOps>>

Listdir(node) ==
    /\ status = "ready" /\ ops.pc # "idle"
    /\ LET c == cached(ops.listdirs, node, call("listdir", <<node>>))
       IN  ops' = [ops EXCEPT !.pc = "called", !.listdirs = c.entries,
                              !.last = [op |-> "listdir", node |-> node, res |-> c.res]]
    /\ UNCHANGED <<readerVars, exceptOps>>

IterdirFirst(node) ==
    /\ status = "ready" /\ ops.pc # "idle"
    /\ ops' = [ops EXCEPT !.pc = "called",
                          !.last = [op |-> "iterdir", node |-> node,
                                    res |-> call("iterdir_first", <<node>>)]]
    /\ UNCHANGED <<readerVars, exceptOps>>

InitOps ==
    /\ \E chunk \in {MetaChunk, SQUASHFS_METADATA_SIZE} :
           Ready(mksquashfs([DefaultImage EXCEPT !.dirChunk = chunk]).image)
    /\ ops = [pc |-> "held", links |-> {}, listdirs |-> {},
              last |-> [op |-> None, node |-> root, res |-> [ok |-> TRUE, val |-> None]]]
    /\ IdleSuper /\ IdleCaches /\ IdleMeta /\ IdleDir /\ IdleWalk /\ IdleStream

NextOps ==
    \/ \E node \in Held : Open(node)
    \/ \E node \in Held : Link(node)
    \/ \E node \in Held : Listdir(node)
    \/ \E node \in Held : IterdirFirst(node)

SpecOps == InitOps /\ [][NextOps]_vars

(***************************************************************************)
(* Path resolution: a client that calls get(path), link_inode on the        *)
(* symlink it got, and get(link) from a node of its choice; get runs one    *)
(* iteration of its loops per step.                                         *)
(***************************************************************************)
Top == walk.stack[Len(walk.stack)]
Part == Top.parts[Top.part_num + 1]
Running == walk.pc = "running" /\ status = "ready"
AtPart == Running /\ Top.part_num < Len(Top.parts)
Advance(w) == [w EXCEPT !.stack[Len(w.stack)].part_num = @ + 1]
\* walk.trail records the stacks the call in progress has stood in: get is
\* deterministic, so a call that stands in one of them again never ends
Stepped(w) == [w EXCEPT !.trail = walk.trail \union {walk.stack}]

\* return node
GetReturn ==
    /\ Running /\ Top.part_num = Len(Top.parts)
    /\ walk' = Stepped(return(walk, Top.node))
    /\ UNCHANGED <<readerVars, exceptWalk>>

\* if not part: continue; if part == ".": continue
GetSkip ==
    /\ AtPart /\ Part \in {<<>>, CH_dot}
    /\ walk' = Stepped(Advance(walk))
    /\ UNCHANGED <<readerVars, exceptWalk>>

\* if part == "..": node = node.parent or node
GetDotDot ==
    /\ AtPart /\ Part = CH_dot \o CH_dot
    /\ walk' = Stepped(Advance([walk EXCEPT !.stack[Len(walk.stack)].node =
                                    IF @.parent = <<>> THEN @ ELSE @.parent[1]]))
    /\ UNCHANGED <<readerVars, exceptWalk>>

\* while node.is_symlink() ...: node = node.link_inode, which calls
\* self.fs.get(self.link, relnode)
GetFollow ==
    /\ AtPart /\ Part \notin {<<>>, CH_dot, CH_dot \o CH_dot}
    /\ is_symlink(Top.node)
    /\ walk' = Stepped(
           IF ~call("link", <<Top.node>>).ok
           THEN raise(walk, call("link", <<Top.node>>).err)
           ELSE IF Len(walk.stack) >= MaxDepth THEN raise(walk, "RecursionError")
           ELSE [walk EXCEPT !.stack =
                    Append(@, get(call("link", <<Top.node>>).val,
                                  relnode(Top.node)))])
    /\ UNCHANGED <<readerVars, exceptWalk>>

\* for entry in node.iterdir(): if entry.name == part: node = entry; break
GetDescend ==
    /\ AtPart /\ Part \notin {<<>>, CH_dot, CH_dot \o CH_dot}
    /\ ~is_symlink(Top.node)
    /\ call("find_entry", <<iterdir(Top.node), Part>>).ok
    /\ walk' = Stepped(Advance([walk EXCEPT !.stack[Len(walk.stack)].node =
                      call("find_entry", <<iterdir(Top.node), Part>>).val]))
    /\ UNCHANGED <<readerVars, exceptWalk>>

\* else: raise FileNotFoundError; or iterdir raises NotADirectoryError
GetNotFound ==
    /\ AtPart /\ Part \notin {<<>>, CH_dot, CH_dot \o CH_dot}
    /\ ~is_symlink(Top.node)
    /\ ~call("find_entry", <<iterdir(Top.node), Part>>).ok
    /\ walk' = Stepped(raise(walk,
                 call("find_entry", <<iterdir(Top.node), Part>>).err))
    /\ UNCHANGED <<readerVars, exceptWalk>>

\* the client calls get(path)
Get(path) ==
    /\ status = "ready" /\ walk.pc \in {"ready", "returned", "raised"}
    /\ walk' = [pc |-> "running", call |-> "get", stack |-> <<get(path, <<>>)>>,
                sym |-> <<>>, li |-> <<>>, from |-> None, trail |-> {},
                res |-> [ok |-> FALSE, err |-> None]]
    /\ UNCHANGED <<readerVars, exceptWalk>>

\* the client reads link_inode of the symlink that get returned
LinkInode ==
    /\ status = "ready" /\ walk.pc = "returned" /\ walk.call = "get"
    /\ is_symlink(walk.res.val) /\ call("link", <<walk.res.val>>).ok
    /\ walk' = [walk EXCEPT
                  !.pc = "running", !.call = "link_inode", !.trail = {},
                  !.sym = <<walk.res.val>>,
                  !.stack = <<get(call("link", <<walk.res.val>>).val,
                                  relnode(walk.res.val))>>]
    /\ UNCHANGED <<readerVars, exceptWalk>>

\* the client calls get(s.link) from the default node, or get(s.link, s.parent)
GetLink(from) ==
    /\ status = "ready" /\ walk.pc = "returned" /\ walk.call = "link_inode"
    /\ walk' = [walk EXCEPT
                  !.pc = "running", !.call = "get_link", !.from = from,
                  !.trail = {},
                  !.li = <<walk.res.val>>,
                  !.stack = <<get(call("link", <<walk.sym[1]>>).val,
                                  IF from = "parent" THEN walk.sym[1].parent
                                  ELSE <<>>)>>]
    /\ UNCHANGED <<readerVars, exceptWalk>>

\* the paths the client asks for
Paths ==
    {CH_a, CH_b, CH_x, CH_d \o CH_slash \o CH_s, CH_slash \o CH_d \o CH_slash \o CH_s,
     CH_a \o CH_slash \o CH_f, CH_b \o CH_slash \o CH_f,
     CH_d \o CH_slash \o CH_dot \o CH_dot \o CH_slash \o CH_f,
     CH_dot \o CH_slash \o CH_d \o CH_slash \o CH_f,
     CH_f \o CH_slash \o CH_x}

\* the targets of /a and /b: a link to a directory and a link to that link;
\* two links to each other; a link to itself; two links that go through
\* each other
TargetsAB ==
    {<<CH_d, CH_a>>, <<CH_b, CH_a>>, <<CH_a, CH_f>>,
     <<CH_b \o CH_slash \o CH_x, CH_a \o CH_slash \o CH_x>>}
\* the targets of /d/s
TargetsS ==
    {CH_f, CH_slash \o CH_f, CH_dot \o CH_dot \o CH_slash \o CH_f,
     CH_slash \o CH_d \o CH_slash \o CH_f}

InitWalk ==
    /\ \E ab \in TargetsAB, ts \in TargetsS :
           Ready(mksquashfs([DefaultImage EXCEPT !.ta = ab[1], !.tb = ab[2],
                                                 !.ts = ts]).image)
    /\ walk = [pc |-> "ready", call |-> None, stack |-> <<>>, sym |-> <<>>,
               li |-> <<>>, from |-> None, trail |-> {},
               res |-> [ok |-> FALSE, err |-> None]]
    /\ IdleSuper /\ IdleCaches /\ IdleMeta /\ IdleDir /\ IdleOps /\ IdleStream

NextWalk ==
    \/ \E path \in Paths : Get(path)
    \/ LinkInode
    \/ \E from \in {"default", "parent"} : GetLink(from)
    \/ GetReturn
    \/ GetSkip
    \/ GetDotDot
    \/ GetFollow
    \/ GetDescend
    \/ GetNotFound

SpecWalk == InitWalk /\ [][NextWalk]_vars

(***************************************************************************)
(* Claims about the superblock, the caches and block I/O.                   *)
(***************************************************************************)
\* C6: every reader whose construction succeeds holds a superblock with
\* s_magic == 0x73717368, s_major == 4, block_log in [12, 20] and
\* 1 << block_log == block_size.
C6_SuperblockInvariants ==
    status = "ready" =>
        /\ U(sb.s_magic) = SQUASHFS_MAGIC
        /\ U(sb.s_major) = 4
        /\ U(sb.block_log) \in 12..20
        /\ Pow2(U(sb.block_log)) = U(sb.block_size)

\* what a reader with zero-capacity caches computes for a call: the bodies
\* run on empty caches
Uncached(c) ==
    CASE c.op = "_read_block" -> read_block_body(c.block, c.length)
      [] c.op = "_lookup_id" -> lookup_id_body(<<>>, c.arg).res
      [] c.op \in {"_lookup_inode", "iter_inodes"} ->
             lookup_inode_body(<<>>, c.arg).res
      [] c.op = "_lookup_fragment" -> lookup_fragment_body(<<>>, c.arg).res

\* C5: every call, served from the caches after any sequence of other calls
\* and evictions, returns what a reader with zero-capacity caches computes
\* (so the (block, offset) of inode n is the same at every resolution); the
\* caches stay within their capacity and hold successful results only.
C5_CacheTransparent ==
    /\ last.op # "none" => last.res = Uncached(last)
    /\ \A i \in 1..Len(block_cache) :
           /\ block_cache[i].val.ok
           /\ block_cache[i].val =
                  read_block_body(block_cache[i].key[1], block_cache[i].key[2])
    /\ \A i \in 1..Len(id_cache) :
           /\ id_cache[i].val.ok
           /\ id_cache[i].val = lookup_id_body(<<>>, id_cache[i].key).res
    /\ \A i \in 1..Len(inode_cache) :
           /\ inode_cache[i].val.ok
           /\ inode_cache[i].val = lookup_inode_body(<<>>, inode_cache[i].key).res
    /\ \A i \in 1..Len(frag_cache) :
           /\ frag_cache[i].val.ok
           /\ frag_cache[i].val = lookup_fragment_body(<<>>, frag_cache[i].key).res
    /\ Len(block_cache) <= LruSize /\ Len(id_cache) <= LruSize
    /\ Len(inode_cache) <= LruSize /\ Len(frag_cache) <= LruSize

\* C5 witness: iter_inodes has gone past the cache's capacity (an entry was
\* evicted) and the call after it was served from a cache
C5_Witness ==
    /\ inum > LruSize + 1
    /\ last.op # "none" /\ last.hit /\ last.res.ok
    /\ Len(inode_cache) = LruSize

\* C8: when _read_block decompresses a block, the output bound handed to the
\* decompressor is block_size for a data block and SQUASHFS_METADATA_SIZE for
\* a metadata block; a block stored raw is not handed to the decompressor.
C8_DecompressBound ==
    (last.op = "_read_block" /\ last.res.ok) =>
        LET prefix == U(FhRead(last.block, 2))
            raw == IF last.length = NoneInt
                   THEN prefix >= SQUASHFS_COMPRESSED_BIT
                   ELSE last.length >= SQUASHFS_COMPRESSED_BIT_BLOCK
        IN  IF raw THEN last.res.bound = 0
            ELSE last.res.bound = (IF last.length = NoneInt
                                   THEN SQUASHFS_METADATA_SIZE
                                   ELSE U(sb.block_size))

\* C7 as stated: a read that the stream can supply returns exactly length
\* bytes; the read in one call returns the bytes of the two calls and their
\* final cursor; and next_offset is 0 whenever the read moved to a later
\* block.
C7_CursorZeroAfterCrossing ==
    (mr.stage = 3 /\ mr.second.ok /\ mr.whole.ok) =>
        /\ Len(mr.first.data) = mr.a
        /\ Len(mr.whole.data) = mr.a + mr.b
        /\ mr.whole.data = mr.first.data \o mr.second.data
        /\ mr.whole.block = mr.second.block
        /\ mr.whole.offset = mr.second.offset
        /\ mr.first.block # mr.block => mr.first.offset = 0

\* C7 amended: as above, but next_offset is 0 when the read ends exactly on
\* the end of a block (the cursor is then the start of the next block); a
\* read that ends inside a block leaves next_offset inside that block, at
\* offset + length when it stayed in the first block.
C7_MetadataCursor ==
    (mr.stage = 3 /\ mr.second.ok /\ mr.whole.ok) =>
        /\ Len(mr.first.data) = mr.a
        /\ Len(mr.second.data) = mr.b
        /\ Len(mr.whole.data) = mr.a + mr.b
        /\ mr.whole.data = mr.first.data \o mr.second.data
        /\ mr.whole.block = mr.second.block
        /\ mr.whole.offset = mr.second.offset
        /\ mr.offset + mr.a < Len(Payload(mr.block)) =>
               mr.first.block = mr.block /\ mr.first.offset = mr.offset + mr.a
        /\ mr.offset + mr.a = Len(Payload(mr.block)) =>
               /\ mr.first.block = read_block(mr.block, NoneInt).next
               /\ mr.first.offset = 0
        /\ mr.offset + mr.a > Len(Payload(mr.block)) =>
               /\ mr.first.block > mr.block
               /\ mr.first.offset < Len(Payload(mr.first.block))

\* C7 witness: a read of two parts that crossed a block boundary and ended
\* inside a later block, and whose second part ended exactly on a boundary
C7_Witness ==
    /\ mr.stage = 3 /\ mr.second.ok /\ mr.whole.ok
    /\ mr.a > 0 /\ mr.b > 0
    /\ mr.first.block # mr.block /\ mr.first.offset > 0
    /\ mr.second.block # mr.first.block /\ mr.second.offset = 0

\* the directory region of a directory inode: its file_size - 3 bytes of the
\* directory table, from (directory_table_start + start_block, offset)
Region(node) ==
    read_metadata(U(sb.directory_table_start) + U(header(node).h.start_block),
                  U(header(node).h.offset), size(node) - 3)

\* the children a region serialises: headers, each followed by count + 1
\* entries of a fixed header and name_size + 1 name bytes; left is the
\* number of entries still to come under the header hd
RECURSIVE Serialised(_, _, _, _)
Serialised(bytes, hd, left, node) ==
    IF bytes = <<>> THEN <<>>
    ELSE IF left = 0
    THEN Serialised(Slice(bytes, 12, Len(bytes)),
                    Slice(bytes, 0, 12), U(Slice(bytes, 0, 4)) + 1, node)
    ELSE LET name_size == U(Slice(bytes, 6, 8))
         IN  << [block |-> U(Slice(hd, 4, 8)),
                 offset |-> U(Slice(bytes, 0, 2)),
                 name |-> decode(Slice(bytes, 8, 8 + name_size + 1)),
                 type |-> U(Slice(bytes, 4, 6)),
                 inode_number |-> U(Slice(hd, 8, 12)) + S16(Slice(bytes, 2, 4)),
                 parent |-> <<node>>] >>
             \o Serialised(Slice(bytes, 8 + name_size + 1, Len(bytes)),
                           hd, left - 1, node)

\* C10: iterdir() on a directory yields the children its region serialises,
\* in on-disk order, each with address (header.start_block, entry.offset),
\* number header.inode_number + entry.inode_number and the directory as
\* parent; when it stops it has consumed exactly file_size - 3 bytes and
\* stands where one read of the whole region ends; on an empty directory
\* (file_size 3) it yields nothing and reads nothing.
C10_IterdirYieldsRegion ==
    (gen.pc \in {"suspended", "done"}) =>
        /\ is_dir(gen.node)
        /\ gen.yielded = SubSeq(Serialised(Region(gen.node).data, <<>>, 0, gen.node),
                                1, Len(gen.yielded))
        /\ gen.pc = "done" =>
               /\ gen.yielded = Serialised(Region(gen.node).data, <<>>, 0, gen.node)
               /\ gen.bytes_read = size(gen.node) - 3
               /\ size(gen.node) > 3 =>
                      /\ gen.start = Region(gen.node).block
                      /\ gen.offset = Region(gen.node).offset
               /\ size(gen.node) = 3 => gen.yielded = <<>> /\ gen.reads = 0

\* C10 witness: an exhausted generator over a directory of two headers whose
\* region spans several metadata blocks, with an entry below its header's
\* inode number
C10_Witness ==
    /\ gen.pc = "done" /\ Len(gen.yielded) = 6
    /\ gen.start # U(sb.directory_table_start) + U(header(gen.node).h.start_block)
    /\ \E i \in 1..5 : /\ gen.yielded[i].block # gen.yielded[i + 1].block
                       /\ gen.yielded[i + 1].inode_number < gen.yielded[i].inode_number

\* what a call returns on an object that has kept nothing
Fresh(op, node) ==
    CASE op = "open" -> open(node)
      [] op = "link" -> link(node)
      [] op = "listdir" -> listdir(node)
      [] op = "iterdir" -> iterdir_first(node)

\* the typed error of a call on an inode of the wrong type
TypedError(op) ==
    CASE op = "open" -> "NotAFileError"
      [] op = "link" -> "NotASymlinkError"
      [] op \in {"listdir", "iterdir"} -> "NotADirectoryError"

RightType(op, node) ==
    CASE op = "open" -> is_file(node)
      [] op = "link" -> is_symlink(node)
      [] op \in {"listdir", "iterdir"} -> is_dir(node)

C3_LinkInodeIsGetLink ==
    (walk.pc = "returned" /\ walk.call = "get_link" /\ walk.from = "default") =>
        inode_number(walk.li[1]) = inode_number(walk.res.val)

\* C3 amended: the two agree when get(s.link) starts where link_inode starts:
\* from the default node for a target that starts with "/" or a symlink in
\* the root directory, from the symlink's parent for a relative target.
C3_LinkInodeIsGetLinkFromParent ==
    (/\ walk.pc = "returned" /\ walk.call = "get_link"
     /\ IF startswith_slash(link(walk.sym[1]).val) THEN walk.from = "default"
        ELSE walk.from = "parent" \/ walk.sym[1].parent = <<root>>) =>
        /\ inode_number(walk.li[1]) = inode_number(walk.res.val)
        /\ walk.li[1].block = walk.res.val.block
        /\ walk.li[1].offset = walk.res.val.offset

\* C3 witness: both resolutions of a relative link of /d/s, the second from
\* the symlink's parent, have returned
C3_Witness ==
    /\ walk.pc = "returned" /\ walk.call = "get_link" /\ walk.from = "parent"
    /\ walk.sym[1].parent # <<root>>
    /\ ~startswith_slash(link(walk.sym[1]).val)
    /\ inode_number(walk.li[1]) = 2

\* C4: path resolution terminates: a call of get in progress never stands
\* again in a configuration (the frames of its calls: parts, position, node)
\* it has stood in, and it never runs out of stack; a cycle of symlinks
\* makes it fail with FileNotFoundError instead.
C4_GetNeverRevisits ==
    /\ walk.pc = "running" => walk.stack \notin walk.trail
    /\ walk.pc = "raised" => walk.res.err # "RecursionError"

\* the bytes of a file as its inode describes them: block k of the block
\* list, stored at start_block plus the stored lengths of the blocks before
\* it (zeros for a sparse block), cut at the file size, then the fragment
PrefixSum(s, k) ==
    s.start_block
    + SumSeq([i \in 1..(k - 1) |->
                 IF s.runlist[i][1] >= SQUASHFS_COMPRESSED_BIT_BLOCK
                 THEN s.runlist[i][1] - SQUASHFS_COMPRESSED_BIT_BLOCK
                 ELSE s.runlist[i][1]])
ExpectedBlock(s, k) ==
    LET entry == s.runlist[k][1]
        at == PrefixSum(s, k)
        n == Min(s.block_size, s.size - (k - 1) * s.block_size)
    IN  IF entry = NoneInt
        THEN _read_fragment(s.fragment, s.fragment_offset, s.runlist[k][2]).data
        ELSE IF entry = 0 THEN Repeat(0, n)
        ELSE Slice(read_block(at, entry).data, 0, n)
Expected(s) == Flatten([k \in 1..Len(s.runlist) |-> ExpectedBlock(s, k)])

\* C1: a read(n) at any position, after any earlier seeks and reads, returns
\* the bytes that one read of the whole file returns for that range, which
\* are the file's bytes; and every block it reads, it reads at start_block
\* plus the sum of the stored lengths of the blocks before it.
C1_ChunkedEqualsWhole ==
    (stream.pc = "open" /\ stream.last.op = "read") =>
        LET whole == read(opened(FileF), -1)
            want == IF stream.last.n = -1 THEN stream.s.size ELSE stream.last.n
        IN  /\ \A i \in 1..Len(stream.rds) : stream.rds[i].ok
            /\ whole.r = Expected(stream.s)
            /\ Len(whole.r) = stream.s.size
            /\ stream.r = Slice(whole.r, stream.last.pos, stream.last.pos + want)
            /\ stream._pos = stream.last.pos + Len(stream.r)
            /\ \A i \in 1..Len(stream.rds) :
                   \A j \in 1..Len(stream.rds[i].at) :
                       stream.rds[i].at[j][2] =
                           PrefixSum(stream.s, stream.rds[i].at[j][1] + 1)

\* C1 witness: a read that started inside a block, after an earlier read had
\* filled the buffer elsewhere, and returned bytes of a compressed block, of
\* a raw block and of the tail fragment
C1_Witness ==
    /\ stream.pc = "open" /\ stream.last.op = "read"
    /\ stream.last.pos % stream.s.block_size # 0
    /\ Len(stream.rds) = 2 /\ Len(stream.rds[1].at) = 1
    /\ stream.rds[2].runs # <<>> /\ stream.s.runlist[stream.rds[2].runs[1] + 1][1] = NoneInt
    /\ Len(stream.r) > stream.s.block_size

\* C9: in every call of _read each run, the fragment included, is read at
\* most once, and the bytes returned are never more than length.
C9_EachRunOnce ==
    stream.pc = "open" =>
        \A i \in 1..Len(stream.rds) :
            /\ \A j, k \in 1..Len(stream.rds[i].runs) :
                   j # k => stream.rds[i].runs[j] # stream.rds[i].runs[k]
            /\ Len(stream.rds[i].data) <= stream.rds[i].length

=============================================================================
